---- MODULE Spec2Model ----
(***************************************************************************)
(* retryhttp: classification of attempt outcomes, header-derived waits,    *)
(* the context-aware wait dispatcher and the policy built by retry(),      *)
(* driven by tenacity's attempt loop.                                      *)
(***************************************************************************)
EXTENDS Integers, Sequences, FiniteSets, TLC

VARIABLES
    pc,              \* position of the decorated call: unbuilt, config_error,
                     \* decorate_error, ready,
                     \* attempt, check, sleeping, returned, raised, probed
    args,            \* the arguments the decorator was given
    policy,          \* the retry / wait / stop strategies handed to tenacity
    order,           \* tenacity's order of the stop check and the wait computation
    attempt_number,  \* RetryCallState.attempt_number
    call_count,      \* how many times the wrapped function was invoked
    outcome,         \* RetryCallState.outcome
    verdicts,        \* what each retry strategy answered in the last evaluation
    calls,           \* the wait strategies invoked by the last wait computation
    sleep,           \* result of the last wait computation
    now,             \* the clock as read by the last wait computation
    error            \* what the call raised to its caller

vars ==
    <<pc, args, policy, order, attempt_number, call_count, outcome, verdicts, calls,
      sleep, now, error>>

(*************************** bounds of the model ***************************)

MaxAttempts == 3

(***************************** Python values *******************************)

\* A boolean result, or the exception raised instead of it.
OkB(v) == [err |-> "", value |-> v]

RaiseB(e) == [err |-> e, value |-> FALSE]

\* A numeric result (seconds), or the exception raised instead of it.
OkN(v) == [err |-> "", value |-> v]

RaiseN(e) == [err |-> e, value |-> 0]

RECURSIVE Pow(_, _)
Pow(b, n) == IF n <= 0 THEN 1 ELSE b * Pow(b, n - 1)

(************************* exception hierarchy *****************************)

\* The classes of httpx and requests the strategies test with isinstance,
\* each with its base classes (itself included).
Bases(kind) ==
    CASE kind = "httpx.ConnectError" ->
            {"httpx.ConnectError", "httpx.NetworkError", "httpx.TransportError",
             "httpx.RequestError", "httpx.HTTPError", "Exception"}
      [] kind = "httpx.ReadError" ->
            {"httpx.ReadError", "httpx.NetworkError", "httpx.TransportError",
             "httpx.RequestError", "httpx.HTTPError", "Exception"}
      [] kind = "httpx.WriteError" ->
            {"httpx.WriteError", "httpx.NetworkError", "httpx.TransportError",
             "httpx.RequestError", "httpx.HTTPError", "Exception"}
      [] kind = "httpx.CloseError" ->
            {"httpx.CloseError", "httpx.NetworkError", "httpx.TransportError",
             "httpx.RequestError", "httpx.HTTPError", "Exception"}
      [] kind = "httpx.ConnectTimeout" ->
            {"httpx.ConnectTimeout", "httpx.TimeoutException", "httpx.TransportError",
             "httpx.RequestError", "httpx.HTTPError", "Exception"}
      [] kind = "httpx.ReadTimeout" ->
            {"httpx.ReadTimeout", "httpx.TimeoutException", "httpx.TransportError",
             "httpx.RequestError", "httpx.HTTPError", "Exception"}
      [] kind = "httpx.HTTPStatusError" ->
            {"httpx.HTTPStatusError", "httpx.HTTPError", "Exception"}
      [] kind = "requests.ConnectionError" ->
            {"requests.ConnectionError", "requests.RequestException", "OSError",
             "Exception"}
      [] kind = "requests.ChunkedEncodingError" ->
            {"requests.ChunkedEncodingError", "requests.RequestException", "OSError",
             "Exception"}
      [] kind = "requests.ConnectTimeout" ->
            {"requests.ConnectTimeout", "requests.ConnectionError", "requests.Timeout",
             "requests.RequestException", "OSError", "Exception"}
      [] kind = "requests.ReadTimeout" ->
            {"requests.ReadTimeout", "requests.Timeout", "requests.RequestException",
             "OSError", "Exception"}
      [] kind = "requests.HTTPError" ->
            {"requests.HTTPError", "requests.RequestException", "OSError", "Exception"}
      [] kind = "OSError" -> {"OSError", "Exception"}
      [] OTHER -> {}

HTTPX_INSTALLED == TRUE

REQUESTS_INSTALLED == TRUE

get_default_network_errors ==
    (IF HTTPX_INSTALLED
     THEN {"httpx.ConnectError", "httpx.ReadError", "httpx.WriteError"} ELSE {})
    \cup (IF REQUESTS_INSTALLED
          THEN {"requests.ConnectionError", "requests.ChunkedEncodingError"} ELSE {})

get_default_timeouts ==
    (IF HTTPX_INSTALLED THEN {"httpx.TimeoutException"} ELSE {})
    \cup (IF REQUESTS_INSTALLED THEN {"requests.Timeout"} ELSE {})

get_default_http_status_exceptions ==
    (IF HTTPX_INSTALLED THEN {"httpx.HTTPStatusError"} ELSE {})
    \cup (IF REQUESTS_INSTALLED THEN {"requests.HTTPError"} ELSE {})

(********************** responses, headers and dates ***********************)

SecondsPerDay == 86400

\* Day number (days since the epoch) of the instants the model works around.
Day0 == 20000

\* 23:59:58 on Day0: the header dates of the model fall on both sides of midnight.
T0 == Day0 * SecondsPerDay + 86398

HeaderNames == {"Retry-After", "X-Retry-In"}

Digits == {"0", "1", "2", "3", "4", "5", "6", "7", "8", "9"}

DigitValue(c) ==
    CASE c = "0" -> 0 [] c = "1" -> 1 [] c = "2" -> 2 [] c = "3" -> 3 [] c = "4" -> 4
      [] c = "5" -> 5 [] c = "6" -> 6 [] c = "7" -> 7 [] c = "8" -> 8 [] c = "9" -> 9

NoDate == [day |-> 0, hour |-> 0, minute |-> 0, second |-> 0]

\* A header value is absent (headers.get gives None), a string given by its
\* characters, or a string in HTTP_DATE_FORMAT given by the fields it spells.
Absent == [form |-> "absent", text |-> <<>>, date |-> NoDate]

Text(chars) == [form |-> "text", text |-> chars, date |-> NoDate]

\* get_http_date: the instant ts (seconds since the epoch) formatted with
\* HTTP_DATE_FORMAT.
strftime(ts) ==
    [form |-> "date", text |-> <<>>,
     date |-> [day |-> ts \div SecondsPerDay,
               hour |-> (ts % SecondsPerDay) \div 3600,
               minute |-> (ts % 3600) \div 60,
               second |-> ts % 60]]

\* A parser that fills in what a string does not spell: a string not in the
\* format is read as the coming midnight.
strptime_lenient(value) ==
    IF value.form = "date"
    THEN OkN(value.date.day * SecondsPerDay + value.date.hour * 3600
             + value.date.minute * 60 + value.date.second)
    ELSE OkN((Day0 + 1) * SecondsPerDay)

\* datetime.strptime(value, HTTP_DATE_FORMAT): the instant a date string spells;
\* ValueError for a string not in the format.
strptime(value) ==
    IF value.form = "date"
    THEN OkN(value.date.day * SecondsPerDay + value.date.hour * 3600
             + value.date.minute * 60 + value.date.second)
    ELSE RaiseN("ValueError")

\* re.match(r"^\d+$", value)
re_match_digits(value) ==
    /\ value.form = "text"
    /\ Len(value.text) > 0
    /\ \A i \in 1..Len(value.text) : value.text[i] \in Digits

\* float reading the digits from the right.
RECURSIVE float_reversed(_)
float_reversed(chars) ==
    IF Len(chars) = 0 THEN 0
    ELSE 10 * float_reversed(SubSeq(chars, 2, Len(chars))) + DigitValue(chars[1])

\* float(value) of an all-digit string
RECURSIVE float(_)
float(chars) ==
    IF Len(chars) = 0 THEN 0
    ELSE 10 * float(SubSeq(chars, 1, Len(chars) - 1)) + DigitValue(chars[Len(chars)])

\* retry_after < now comparing the whole seconds only.
datetime_lt_whole_seconds(retry_after, t) == retry_after < t.sec

\* retry_after < now, for a whole-second retry_after and a clock reading with
\* microseconds.
datetime_lt(retry_after, t) ==
    \/ retry_after < t.sec
    \/ retry_after = t.sec /\ t.usec > 0

\* The whole seconds from the clock's next second to retry_after, no
\* normalisation.
timedelta_seconds_from_next(retry_after, t) == retry_after - t.sec - 1

\* (retry_after - now).seconds: the seconds field of the normalised timedelta
\* (days, seconds, microseconds), 0 <= seconds < 86400.
timedelta_seconds(retry_after, t) ==
    LET whole == IF t.usec > 0 THEN retry_after - t.sec - 1 ELSE retry_after - t.sec
    IN  whole % SecondsPerDay

(******************************* outcomes **********************************)

Headers(retry_after, retry_in) ==
    [h \in HeaderNames |-> IF h = "Retry-After" THEN retry_after ELSE retry_in]

NoHeaders == Headers(Absent, Absent)

\* RetryCallState.outcome is None before the first attempt.
NoOutcome ==
    [state |-> "none", kind |-> "None", resp |-> "noattr", status |-> 0,
     headers |-> NoHeaders]

\* The attempt returned a response without raising.
Success(status, headers) ==
    [state |-> "success", kind |-> "None", resp |-> "response", status |-> status,
     headers |-> headers]

\* The attempt raised an exception that carries no response.
Failure(kind) ==
    [state |-> "failed", kind |-> kind, resp |-> "noattr", status |-> 0,
     headers |-> NoHeaders]

\* The attempt raised an HTTP-status exception of class kind for a response.
StatusFailure(kind, status, headers) ==
    [state |-> "failed", kind |-> kind, resp |-> "response", status |-> status,
     headers |-> headers]

\* requests.HTTPError raised without a response: its response attribute is None.
NoneResponseFailure(kind) ==
    [state |-> "failed", kind |-> kind, resp |-> "none", status |-> 0,
     headers |-> NoHeaders]

\* Future.exception(): None unless the attempt raised.
None == [NoOutcome EXCEPT !.state = "exception"]

\* Future.exception() as if the attempt had called raise_for_status() on the
\* response it returned.
exception_raising_for_status(o) ==
    IF o.state = "failed" THEN [o EXCEPT !.state = "exception"]
    ELSE IF o.state = "success" /\ o.status >= 400
    THEN [o EXCEPT !.state = "exception", !.kind = "httpx.HTTPStatusError"]
    ELSE None

exception(o) == IF o.state = "failed" THEN [o EXCEPT !.state = "exception"] ELSE None

isinstance(exc, types) == Bases(exc.kind) \cap types # {}

hasattr_response(exc) == exc.resp # "noattr"

(****************************** classifiers ********************************)

\* is_rate_limited deciding by the presence of a Retry-After header.
is_rate_limited_by_header(exc) ==
    IF exc = None THEN OkB(FALSE)
    ELSE IF isinstance(exc, get_default_http_status_exceptions) /\ hasattr_response(exc)
    THEN IF exc.resp = "none"
         THEN RaiseB("AttributeError")
         ELSE OkB(exc.headers["Retry-After"].form # "absent")
    ELSE OkB(FALSE)

\* _utils.is_rate_limited(exc)
is_rate_limited(exc) ==
    IF exc = None THEN OkB(FALSE)
    ELSE IF isinstance(exc, get_default_http_status_exceptions) /\ hasattr_response(exc)
    THEN IF exc.resp = "none"
         THEN RaiseB("AttributeError")
         ELSE OkB(exc.status = 429)
    ELSE OkB(FALSE)

\* is_server_error accepting every 5xx status, whatever status_codes holds.
is_server_error_any_5xx(exc, status_codes) ==
    IF exc = None THEN OkB(FALSE)
    ELSE IF isinstance(exc, get_default_http_status_exceptions) /\ hasattr_response(exc)
    THEN IF exc.resp = "none"
         THEN RaiseB("AttributeError")
         ELSE OkB(exc.status >= 500 /\ exc.status < 600)
    ELSE OkB(FALSE)

\* The status_codes of is_server_error when the caller gives none, as the four
\* codes the retry strategy defaults to.
DefaultStatusCodesAsRetried == {500, 502, 503, 504}

\* The status_codes of is_server_error when the caller gives none:
\* tuple(range(500, 600)).
DefaultStatusCodes == 500..599

\* _utils.is_server_error(exc, status_codes)
is_server_error(exc, status_codes) ==
    IF exc = None THEN OkB(FALSE)
    ELSE IF isinstance(exc, get_default_http_status_exceptions) /\ hasattr_response(exc)
    THEN IF exc.resp = "none"
         THEN RaiseB("AttributeError")
         ELSE OkB(exc.status \in status_codes)
    ELSE OkB(FALSE)

(**************************** retry strategies *****************************)

\* A RetryCallState as the strategies read it.
RetryState(o, n) == [outcome |-> o, attempt_number |-> n]

\* retry_if_rate_limited judging the response of any outcome, failed or not.
retry_if_rate_limited_any_outcome(rs) ==
    IF rs.outcome.state # "none"
    THEN OkB(rs.outcome.resp = "response" /\ rs.outcome.status = 429)
    ELSE OkB(FALSE)

\* retry_if_rate_limited.__call__
retry_if_rate_limited(rs) ==
    IF rs.outcome.state # "none" /\ rs.outcome.state = "failed"
    THEN is_rate_limited(exception(rs.outcome))
    ELSE OkB(FALSE)

\* retry_if_server_error.__call__
retry_if_server_error(self, rs) ==
    IF rs.outcome.state # "none" /\ rs.outcome.state = "failed"
    THEN is_server_error(exception(rs.outcome), self.server_error_codes)
    ELSE OkB(FALSE)

\* tenacity.retry_if_exception_type.__call__, the base of retry_if_network_error
\* and retry_if_timeout: it refuses a state whose outcome was never set.
retry_if_exception_type(types, rs) ==
    IF rs.outcome.state = "none" THEN RaiseB("RuntimeError")
    ELSE IF rs.outcome.state = "failed"
    THEN OkB(isinstance(exception(rs.outcome), types))
    ELSE OkB(FALSE)

\* retry_if_network_error(errors).__call__
retry_if_network_error(self, rs) == retry_if_exception_type(self.network_errors, rs)

\* retry_if_timeout(timeouts).__call__
retry_if_timeout(self, rs) == retry_if_exception_type(self.timeouts, rs)

StrategyNames ==
    {"retry_if_server_error", "retry_if_network_error", "retry_if_timeout",
     "retry_if_rate_limited"}

\* One strategy of the predicate, by name.
retry_strategy(name, self, rs) ==
    CASE name = "retry_if_server_error" -> retry_if_server_error(self, rs)
      [] name = "retry_if_network_error" -> retry_if_network_error(self, rs)
      [] name = "retry_if_timeout" -> retry_if_timeout(self, rs)
      [] name = "retry_if_rate_limited" -> retry_if_rate_limited(rs)

Verdict(r) == IF r.err # "" THEN r.err ELSE IF r.value THEN "True" ELSE "False"

\* The answers a state records: the strategies', and that of is_server_error
\* called by itself.
VerdictNames == StrategyNames \cup {"is_server_error"}

NoVerdicts == [n \in VerdictNames |-> "skipped"]

\* tenacity.retry_any.__call__: any(r(retry_state) for r in self.retries), which
\* stops at the first strategy that answers true or raises. The result carries
\* each strategy's answer ("skipped" when it was not asked).
RECURSIVE retry_any_from(_, _, _, _)
retry_any_from(self, rs, i, seen) ==
    IF i > Len(self.retries) THEN [err |-> "", value |-> FALSE, verdicts |-> seen]
    ELSE LET r == retry_strategy(self.retries[i], self, rs)
             seen1 == [seen EXCEPT ![self.retries[i]] = Verdict(r)]
         IN  IF r.err # "" THEN [err |-> r.err, value |-> FALSE, verdicts |-> seen1]
             ELSE IF r.value THEN [err |-> "", value |-> TRUE, verdicts |-> seen1]
             ELSE retry_any_from(self, rs, i + 1, seen1)

retry_any(self, rs) == retry_any_from(self, rs, 1, NoVerdicts)

(***************************** wait strategies *****************************)

\* wait_max=None: no ceiling.
NoMax == -1

\* The random draws of the model: u stands for the fraction u / RandomSteps of
\* the interval random.uniform draws from.
RandomSteps == 2

\* wait_exponential starting at two seconds.
wait_exponential_from_two(rs) == Pow(2, rs.attempt_number)

\* tenacity.wait_exponential() with its defaults (multiplier 1, base 2, min 0).
wait_exponential(rs) == Pow(2, rs.attempt_number - 1)

\* tenacity.wait_random_exponential() with its defaults:
\* random.uniform(0, wait_exponential(retry_state)).
wait_random_exponential(rs, u) == (u * wait_exponential(rs)) \div RandomSteps

\* A result of a wait strategy: the seconds (or the exception raised) and the
\* strategies that were invoked to compute it, in order.
WaitResult(r, invoked) == [err |-> r.err, value |-> r.value, calls |-> invoked]

\* The strategy configured as a fallback, by name.
fallback_wait(name, rs, u) ==
    CASE name = "wait_exponential" ->
            WaitResult(OkN(wait_exponential(rs)), <<"wait_exponential">>)
      [] name = "wait_random_exponential" ->
            WaitResult(OkN(wait_random_exponential(rs, u)), <<"wait_random_exponential">>)

\* wait_from_header._get_wait_value, reading the clock as t.
get_wait_value(self, rs, t) ==
    IF rs.outcome.state # "none"
    THEN LET exc == exception(rs.outcome) IN
         IF exc = None THEN OkN(0)
         ELSE IF isinstance(exc, get_default_http_status_exceptions)
                 /\ hasattr_response(exc)
         THEN IF exc.resp = "none" THEN RaiseN("AttributeError")
              ELSE LET value == exc.headers[self.header] IN
                   IF value.form = "absent" THEN RaiseN("ValueError")
                   ELSE IF re_match_digits(value) THEN OkN(float(value.text))
                   ELSE LET retry_after == strptime(value) IN
                        IF retry_after.err # "" THEN retry_after
                        ELSE IF datetime_lt(retry_after.value, t)
                        THEN RaiseN("ValueError")
                        ELSE OkN(timedelta_seconds(retry_after.value, t))
         ELSE RaiseN("ValueError")
    ELSE RaiseN("ValueError")

\* The ceiling test refusing a value equal to wait_max as well.
exceeds_wait_max_inclusive(self, value) ==
    self.wait_max # NoMax /\ value >= self.wait_max

\* value > self.wait_max, when a ceiling is set
exceeds_wait_max(self, value) == self.wait_max # NoMax /\ value > self.wait_max

\* wait_from_header.__call__ once _get_wait_value has returned or raised got.
checked_wait(self, rs, u, got) ==
    LET me == <<"wait_from_header">>
    IN  IF self.fallback # "None"
        THEN IF got.err = "ValueError"
             THEN LET f == fallback_wait(self.fallback, rs, u)
                  IN  WaitResult(f, me \o f.calls)
             ELSE IF got.err # "" THEN WaitResult(got, me)
             ELSE IF exceeds_wait_max(self, got.value)
             THEN LET f == fallback_wait(self.fallback, rs, u)
                  IN  WaitResult(f, me \o f.calls)
             ELSE WaitResult(got, me)
        ELSE IF got.err # "" THEN WaitResult(got, me)
             ELSE IF exceeds_wait_max(self, got.value)
             THEN WaitResult(RaiseN("ValueError"), me)
             ELSE WaitResult(got, me)

\* wait_from_header.__call__ adding up the header's wait over the attempts made.
wait_from_header_cumulative(self, rs, t, u) ==
    LET got == get_wait_value(self, rs, t)
    IN  checked_wait(self, rs, u, [got EXCEPT !.value = got.value * rs.attempt_number])

\* wait_from_header.__call__ taking a wait of zero for no wait at all.
wait_from_header_falsy_zero(self, rs, t, u) ==
    LET got == get_wait_value(self, rs, t)
    IN  IF got.err = "" /\ got.value = 0
        THEN checked_wait(self, rs, u, RaiseN("ValueError"))
        ELSE checked_wait(self, rs, u, got)

\* wait_from_header.__call__
wait_from_header(self, rs, t, u) == checked_wait(self, rs, u, get_wait_value(self, rs, t))

\* The strategy objects of the model.
WaitExponential ==
    [type |-> "wait_exponential", header |-> "", wait_max |-> NoMax, fallback |-> "None"]

WaitRandomExponential ==
    [type |-> "wait_random_exponential", header |-> "", wait_max |-> NoMax,
     fallback |-> "None"]

\* An argument the caller left out.
Omitted == "omitted"

\* wait_from_header.__init__: a fallback left out is wait_exponential().
WaitFromHeader(header, wait_max, fallback) ==
    [type |-> "wait_from_header", header |-> header,
     wait_max |-> IF wait_max # NoMax /\ wait_max # 0 THEN wait_max ELSE NoMax,
     fallback |-> IF fallback = Omitted THEN "wait_exponential" ELSE fallback]

\* wait_retry_after.__init__
WaitRetryAfter(wait_max, fallback) == WaitFromHeader("Retry-After", wait_max, fallback)

\* Calling a wait strategy object.
call_wait(w, rs, t, u) ==
    CASE w.type = "wait_exponential" ->
            WaitResult(OkN(wait_exponential(rs)), <<"wait_exponential">>)
      [] w.type = "wait_random_exponential" ->
            WaitResult(OkN(wait_random_exponential(rs, u)), <<"wait_random_exponential">>)
      [] w.type = "wait_from_header" -> wait_from_header(w, rs, t, u)

\* A category's strategy invoked by the dispatcher: the slot is recorded ahead
\* of what the strategy itself invokes.
call_slot(slot, w, rs, t, u) ==
    LET r == call_wait(w, rs, t, u) IN WaitResult(r, <<slot>> \o r.calls)

\* wait_context_aware.__call__ asking the rate-limit question first.
wait_context_aware_rate_first(self, rs, t, u) ==
    IF rs.outcome.state # "none"
    THEN LET exc == exception(rs.outcome)
             rate == is_rate_limited(exc)
         IN  IF rate.err # "" THEN WaitResult(RaiseN(rate.err), <<>>)
             ELSE IF rate.value
             THEN call_slot("wait_rate_limited", self.wait_rate_limited, rs, t, u)
             ELSE LET server == is_server_error(exc, self.server_error_codes) IN
                  IF server.err # "" THEN WaitResult(RaiseN(server.err), <<>>)
                  ELSE IF server.value
                  THEN call_slot("wait_server_errors", self.wait_server_errors, rs, t, u)
                  ELSE IF isinstance(exc, self.network_errors)
                  THEN call_slot("wait_network_errors", self.wait_network_errors,
                                 rs, t, u)
                  ELSE IF isinstance(exc, self.timeouts)
                  THEN call_slot("wait_timeouts", self.wait_timeouts, rs, t, u)
                  ELSE WaitResult(OkN(0), <<>>)
    ELSE WaitResult(OkN(0), <<>>)

\* wait_context_aware.__call__
wait_context_aware(self, rs, t, u) ==
    IF rs.outcome.state # "none"
    THEN LET exc == exception(rs.outcome)
             server == is_server_error(exc, self.server_error_codes)
         IN  IF server.err # "" THEN WaitResult(RaiseN(server.err), <<>>)
             ELSE IF server.value
             THEN call_slot("wait_server_errors", self.wait_server_errors, rs, t, u)
             ELSE IF isinstance(exc, self.network_errors)
             THEN call_slot("wait_network_errors", self.wait_network_errors, rs, t, u)
             ELSE IF isinstance(exc, self.timeouts)
             THEN call_slot("wait_timeouts", self.wait_timeouts, rs, t, u)
             ELSE LET rate == is_rate_limited(exc) IN
                  IF rate.err # "" THEN WaitResult(RaiseN(rate.err), <<>>)
                  ELSE IF rate.value
                  THEN call_slot("wait_rate_limited", self.wait_rate_limited, rs, t, u)
                  ELSE WaitResult(OkN(0), <<>>)
    ELSE WaitResult(OkN(0), <<>>)

\* The set-valued argument left at None.
NoneSet == {"None"}

\* The default arguments of wait_context_aware.__init__ with a code set that
\* has drifted from the one retry() defaults to.
WaitContextAwareDefaultsOnly500 ==
    [wait_server_errors |-> WaitRetryAfter(120, "wait_random_exponential"),
     wait_network_errors |-> WaitExponential,
     wait_timeouts |-> WaitRandomExponential,
     wait_rate_limited |-> WaitRetryAfter(120, "wait_exponential"),
     server_error_codes |-> {500},
     network_errors |-> NoneSet,
     timeouts |-> NoneSet]

\* The default arguments of wait_context_aware.__init__ with the server-error
\* strategy retry() defaults to.
WaitContextAwareDefaultsAsRetry ==
    [wait_server_errors |-> WaitRandomExponential,
     wait_network_errors |-> WaitExponential,
     wait_timeouts |-> WaitRandomExponential,
     wait_rate_limited |-> WaitRetryAfter(120, "wait_exponential"),
     server_error_codes |-> {500, 502, 503, 504},
     network_errors |-> NoneSet,
     timeouts |-> NoneSet]

\* The default arguments of wait_context_aware.__init__.
WaitContextAwareDefaults ==
    [wait_server_errors |-> WaitRetryAfter(120, "wait_random_exponential"),
     wait_network_errors |-> WaitExponential,
     wait_timeouts |-> WaitRandomExponential,
     wait_rate_limited |-> WaitRetryAfter(120, "wait_exponential"),
     server_error_codes |-> {500, 502, 503, 504},
     network_errors |-> NoneSet,
     timeouts |-> NoneSet]

\* wait_context_aware.__init__ with the keyword arguments kw.
WaitContextAware(kw) ==
    [type |-> "wait_context_aware",
     wait_server_errors |-> kw.wait_server_errors,
     wait_network_errors |-> kw.wait_network_errors,
     wait_timeouts |-> kw.wait_timeouts,
     wait_rate_limited |-> kw.wait_rate_limited,
     server_error_codes |-> kw.server_error_codes,
     network_errors |-> IF kw.network_errors = NoneSet
                        THEN get_default_network_errors ELSE kw.network_errors,
     timeouts |-> IF kw.timeouts = NoneSet
                  THEN get_default_timeouts ELSE kw.timeouts]

\* The wait strategy of a policy, applied.
policy_wait(w, rs, t, u) ==
    IF w.type = "wait_context_aware" THEN wait_context_aware(w, rs, t, u)
    ELSE call_wait(w, rs, t, u)

(***************************** policy builder ******************************)

\* retry_if_server_error / retry_if_network_error / retry_if_timeout /
\* retry_if_rate_limited objects combined by retry_any, in the given order.
RetryAny(retries, server_error_codes, network_errors, timeouts) ==
    [retries |-> retries, server_error_codes |-> server_error_codes,
     network_errors |-> network_errors, timeouts |-> timeouts]

\* The default keyword arguments of retry(); of those it does not name, reraise
\* as tenacity defaults it and stop=stop_after_attempt(k) as k, 0 when it is not
\* passed.
RetryDefaults ==
    [max_attempt_number |-> 3,
     retry_server_errors |-> TRUE,
     retry_network_errors |-> TRUE,
     retry_timeouts |-> TRUE,
     retry_rate_limited |-> TRUE,
     wait_server_errors |-> WaitRandomExponential,
     wait_network_errors |-> WaitExponential,
     wait_timeouts |-> WaitRandomExponential,
     wait_rate_limited |-> WaitRetryAfter(120, "wait_exponential"),
     server_error_codes |-> {500, 502, 503, 504},
     network_errors |-> NoneSet,
     timeouts |-> NoneSet,
     reraise |-> FALSE,
     stop |-> 0]

\* retry_strategies with the timeout strategy added whatever its flag.
retry_strategies_timeouts_always(kw) ==
    (IF kw.retry_server_errors THEN <<"retry_if_server_error">> ELSE <<>>)
    \o (IF kw.retry_network_errors THEN <<"retry_if_network_error">> ELSE <<>>)
    \o <<"retry_if_timeout">>
    \o (IF kw.retry_rate_limited THEN <<"retry_if_rate_limited">> ELSE <<>>)

\* The retry_strategies list of retry().
retry_strategies(kw) ==
    (IF kw.retry_server_errors THEN <<"retry_if_server_error">> ELSE <<>>)
    \o (IF kw.retry_network_errors THEN <<"retry_if_network_error">> ELSE <<>>)
    \o (IF kw.retry_timeouts THEN <<"retry_if_timeout">> ELSE <<>>)
    \o (IF kw.retry_rate_limited THEN <<"retry_if_rate_limited">> ELSE <<>>)

\* The retry predicate of retry(): retry_any over the enabled strategies, each
\* built with the set given to retry().
retry_predicate(kw) ==
    RetryAny(retry_strategies(kw), kw.server_error_codes,
             IF kw.network_errors = NoneSet
             THEN get_default_network_errors ELSE kw.network_errors,
             IF kw.timeouts = NoneSet THEN get_default_timeouts ELSE kw.timeouts)

\* The wait dispatcher of retry(): the four strategies are passed on, the
\* category sets are left to wait_context_aware's own defaults.
retry_wait(kw) ==
    WaitContextAware([WaitContextAwareDefaults EXCEPT
                        !.wait_server_errors = kw.wait_server_errors,
                        !.wait_network_errors = kw.wait_network_errors,
                        !.wait_timeouts = kw.wait_timeouts,
                        !.wait_rate_limited = kw.wait_rate_limited])

\* The stop condition of retry(): kwargs.get("stop") or
\* stop_after_attempt(max_attempt_number).
retry_stop(kw) == IF kw.stop # 0 THEN kw.stop ELSE kw.max_attempt_number

\* retry.decorator: tenacity_retry(retry=retry, wait=wait, stop=stop, **kwargs)
\* is a call with a keyword given twice, a TypeError, when kwargs holds stop.
decorator(kw) == IF kw.stop # 0 THEN "TypeError" ELSE ""

NoPolicy ==
    [retry |-> RetryAny(<<>>, {}, {}, {}), wait |-> WaitExponential, stop |-> 0,
     reraise |-> FALSE]

\* retry() without the check for an empty list of strategies.
retry_unchecked(kw) ==
    [err |-> "",
     policy |-> [retry |-> retry_predicate(kw), wait |-> retry_wait(kw),
                 stop |-> retry_stop(kw), reraise |-> kw.reraise]]

\* retry() keeping the keyword arguments it does not name to itself.
retry_drops_kwargs(kw) ==
    IF retry_strategies(kw) = <<>>
    THEN [err |-> "RuntimeError", policy |-> NoPolicy]
    ELSE [err |-> "",
          policy |-> [retry |-> retry_predicate(kw), wait |-> retry_wait(kw),
                      stop |-> retry_stop(kw), reraise |-> FALSE]]

\* retry(**kw): the policy handed to tenacity (the keyword arguments retry() does
\* not name, reraise among them, are passed on), or the error raised instead.
retry(kw) ==
    IF retry_strategies(kw) = <<>>
    THEN [err |-> "RuntimeError", policy |-> NoPolicy]
    ELSE [err |-> decorator(kw),
          policy |-> [retry |-> retry_predicate(kw), wait |-> retry_wait(kw),
                      stop |-> retry_stop(kw), reraise |-> kw.reraise]]


(************************** inputs of the model ****************************)

\* Clock readings: T0 on the second, and half a second later.
Clock == {[sec |-> T0, usec |-> 0], [sec |-> T0, usec |-> 500000]}

Statuses == {404, 429, 501, 503}

RetryAfterValues ==
    {Absent,
     Text(<<"0">>), Text(<<"5">>), Text(<<"6">>),
     Text(<<"1", "2", "0">>), Text(<<"1", "2", "1">>),
     Text(<<"1", ".", "5">>), Text(<<"-", "5">>), Text(<<>>),
     Text(<<"s", "o", "o", "n">>),
     strftime(T0 - 1), strftime(T0), strftime(T0 + 3), strftime(T0 + 5),
     strftime(T0 + 6), strftime(T0 + SecondsPerDay + 5)}

PlainFailureKinds ==
    {"httpx.ConnectError", "httpx.ReadError", "httpx.WriteError", "httpx.CloseError",
     "httpx.ConnectTimeout", "httpx.ReadTimeout", "requests.ConnectionError",
     "requests.ChunkedEncodingError", "requests.ConnectTimeout",
     "requests.ReadTimeout", "OSError"}

\* What one attempt of the wrapped function can end with.
Outcomes ==
    {Success(200, NoHeaders), Success(429, Headers(Text(<<"5">>), Absent)),
     Success(503, NoHeaders)}
    \cup {Failure(k) : k \in PlainFailureKinds \cup {"httpx.HTTPStatusError"}}
    \cup {NoneResponseFailure("requests.HTTPError")}
    \cup {StatusFailure("httpx.HTTPStatusError", s, Headers(ra, Absent)) :
            s \in Statuses, ra \in RetryAfterValues}
    \cup {StatusFailure("httpx.HTTPStatusError", s, Headers(ra, Text(<<"7">>))) :
            s \in {429, 503}, ra \in {Absent, Text(<<"5">>)}}
    \cup {StatusFailure("requests.HTTPError", 429, Headers(Text(<<"5">>), Absent)),
          StatusFailure("requests.HTTPError", 503, NoHeaders)}

DefaultServerErrorCodes == RetryDefaults.server_error_codes

ServerErrorCodeSets == {DefaultServerErrorCodes, {429, 503}}

\* network_errors as a caller narrows or widens it.
NetworkErrorSets == {{"httpx.CloseError"}}

WaitMaxValues == {NoMax, 5, 120}

Fallbacks == {"None", "wait_exponential"}

\* The header-derived strategies a caller configures.
HeaderStrategies ==
    {WaitFromHeader("Retry-After", m, f) : m \in WaitMaxValues, f \in Fallbacks}
    \cup {WaitFromHeader("X-Retry-In", 2, f) : f \in Fallbacks}

\* wait_context_aware(server_error_codes=codes): the other arguments at their
\* defaults.
DefaultWaitContextAware(codes) ==
    WaitContextAware([WaitContextAwareDefaults EXCEPT !.server_error_codes = codes])

\* The wait strategies a caller hands to tenacity directly.
DirectWaits ==
    HeaderStrategies \cup {DefaultWaitContextAware(c) : c \in ServerErrorCodeSets}

(****************************** the machine ********************************)

NoSleep == [computed |-> FALSE, err |-> "", value |-> 0]

Slept(w) == [computed |-> TRUE, err |-> w.err, value |-> w.value]

\* The keyword arguments of retry() the model varies.
RetryKwargs ==
    {[RetryDefaults EXCEPT !.max_attempt_number = n,
                           !.retry_server_errors = f[1],
                           !.retry_network_errors = f[2],
                           !.retry_timeouts = f[3],
                           !.retry_rate_limited = f[4]] :
        n \in 1..MaxAttempts, f \in [1..4 -> BOOLEAN]}
    \cup {[RetryDefaults EXCEPT !.max_attempt_number = n, !.server_error_codes = c] :
            n \in 1..MaxAttempts, c \in ServerErrorCodeSets}
    \cup {[RetryDefaults EXCEPT !.max_attempt_number = n, !.reraise = TRUE] :
            n \in 1..MaxAttempts}
    \cup {[RetryDefaults EXCEPT !.stop = k] : k \in 1..MaxAttempts}
    \cup {[RetryDefaults EXCEPT !.max_attempt_number = n, !.network_errors = e] :
            n \in 1..MaxAttempts, e \in NetworkErrorSets}

\* The keyword arguments handed to tenacity.retry directly; fallback is the
\* fallback argument the wait strategy was constructed with.
TenacityKwargs ==
    {[retry |-> r, wait |-> w, stop |-> n,
      fallback |-> IF w.type = "wait_from_header" THEN w.fallback ELSE ""] :
        r \in {"retry_if_server_error", "retry_if_rate_limited"},
        w \in DirectWaits, n \in 1..MaxAttempts}
    \cup {[retry |-> "retry_if_server_error",
           wait |-> WaitFromHeader("Retry-After", 5, Omitted),
           stop |-> n, fallback |-> Omitted] : n \in 1..MaxAttempts}

NoArgs == [builder |-> "", kw |-> [stop |-> 0]]


Init ==
    /\ pc = "unbuilt"
    /\ args = NoArgs
    /\ policy = NoPolicy
    /\ order \in {"stop_then_wait", "wait_then_stop"}
    /\ attempt_number = 0
    /\ call_count = 0
    /\ outcome = NoOutcome
    /\ verdicts = NoVerdicts
    /\ calls = <<>>
    /\ sleep = NoSleep
    /\ now = [sec |-> T0, usec |-> 0]
    /\ error = ""

\* @retryhttp.retry(**kw): the policy is built, or the configuration error raised.
BuildRetry ==
    /\ pc = "unbuilt"
    /\ \E kw \in RetryKwargs :
         LET built == retry(kw)
         IN  /\ args' = [builder |-> "retry", kw |-> kw]
             /\ IF built.err = "RuntimeError"
                THEN /\ pc' = "config_error"
                     /\ error' = built.err
                     /\ UNCHANGED policy
                ELSE IF built.err # ""
                THEN /\ pc' = "decorate_error"
                     /\ error' = built.err
                     /\ policy' = built.policy
                ELSE /\ pc' = "ready"
                     /\ policy' = built.policy
                     /\ UNCHANGED error
    /\ UNCHANGED <<order, attempt_number, call_count, outcome, verdicts, calls, sleep, now>>

\* @tenacity.retry(retry=..., wait=..., stop=stop_after_attempt(n)) with one of
\* the package's retry strategies and one of its wait strategies, as the
\* package's tests do; the retry strategy is built with its default sets.
BuildTenacity ==
    /\ pc = "unbuilt"
    /\ \E kw \in TenacityKwargs :
         /\ args' = [builder |-> "tenacity", kw |-> kw]
         /\ policy' = [retry |-> RetryAny(<<kw.retry>>, {500, 502, 503, 504},
                                          get_default_network_errors,
                                          get_default_timeouts),
                       wait |-> kw.wait, stop |-> kw.stop, reraise |-> FALSE]
    /\ pc' = "ready"
    /\ UNCHANGED <<order, attempt_number, call_count, outcome, verdicts, calls, sleep,
                   now, error>>


\* stop_after_attempt refusing only once the limit is passed.
stop_after_attempt_exclusive(max_attempt_number, rs) ==
    rs.attempt_number > max_attempt_number

\* tenacity.stop_after_attempt(max_attempt_number).__call__
stop_after_attempt(max_attempt_number, rs) == rs.attempt_number >= max_attempt_number

\* The stop raising RetryError whatever reraise says.
retry_error_never_reraises(self, o) == "RetryError"

\* The stop raising the last attempt's exception whatever reraise says.
retry_error_always_reraises(self, o) ==
    IF o.state = "failed" THEN o.kind ELSE "RetryError"

\* What tenacity raises when the stop condition ends the loop: RetryError
\* holding the last attempt, or with reraise the last attempt's own exception
\* (RetryError.reraise).
retry_error(self, o) ==
    IF self.reraise /\ o.state = "failed" THEN o.kind ELSE "RetryError"

\* The decorated function is called: tenacity starts its loop.
Call ==
    /\ pc = "ready"
    /\ pc' = "attempt"
    /\ attempt_number' = 1
    /\ UNCHANGED <<args, policy, order, call_count, outcome, verdicts, calls, sleep, now,
                   error>>

\* One attempt of the wrapped function ends with an outcome.
DoAttempt ==
    /\ pc = "attempt"
    /\ \E o \in Outcomes : outcome' = o
    /\ call_count' = call_count + 1
    /\ pc' = "check"
    /\ UNCHANGED <<args, policy, order, attempt_number, verdicts, calls, sleep, now, error>>

\* The policy object after its retry predicate and its wait strategy were
\* applied to rs, the predicate adding the status it saw to its code set.
evaluated_remembering_status(pol, rs) ==
    IF rs.outcome.state = "failed" /\ rs.outcome.resp = "response"
    THEN [pol EXCEPT !.retry.server_error_codes = @ \cup {rs.outcome.status}]
    ELSE pol

\* The policy object after its retry predicate and its wait strategy were
\* applied to rs: no __call__ assigns to self or to a module-level name, the
\* attributes are written by __init__ only. (The generator a jittered strategy
\* draws from is the draw u of the iteration.)
evaluated(pol, rs) == pol

\* tenacity's iteration after an attempt: the retry predicate, then the stop
\* condition and the wait (in the order ord of the tenacity version in use).
\* waited tells whether the wait was computed.
iter(pol, ord, rs, t, u) ==
    LET r == retry_any(pol.retry, rs)
        w == policy_wait(pol.wait, rs, t, u)
        stop == stop_after_attempt(pol.stop, rs)
        o == rs.outcome
        end(p, e, waited) ==
            [pc |-> p, error |-> e, verdicts |-> r.verdicts, waited |-> waited,
             wait |-> w, policy |-> evaluated(pol, rs)]
    IN  IF r.err # "" THEN end("raised", r.err, FALSE)
        ELSE IF ~r.value
        THEN IF o.state = "failed"
             THEN end("raised", o.kind, FALSE) ELSE end("returned", "", FALSE)
        ELSE IF ord = "stop_then_wait" /\ stop
        THEN end("raised", retry_error(pol, o), FALSE)
        ELSE IF w.err # "" THEN end("raised", w.err, TRUE)
        ELSE IF stop THEN end("raised", retry_error(pol, o), TRUE)
        ELSE end("sleeping", "", TRUE)

\* One iteration of the call's loop.
Iter ==
    /\ pc = "check"
    /\ \E t \in Clock, u \in 0..RandomSteps :
         LET i == iter(policy, order, RetryState(outcome, attempt_number), t, u)
         IN  /\ verdicts' = i.verdicts
             /\ now' = t
             /\ pc' = i.pc
             /\ error' = i.error
             /\ policy' = i.policy
             /\ IF i.waited
                THEN calls' = i.wait.calls /\ sleep' = Slept(i.wait)
                ELSE UNCHANGED <<calls, sleep>>
    /\ UNCHANGED <<args, order, attempt_number, call_count, outcome>>

\* The sleep ends and the state is prepared for the next attempt.
Sleep ==
    /\ pc = "sleeping"
    /\ pc' = "attempt"
    /\ attempt_number' = attempt_number + 1
    /\ outcome' = NoOutcome
    /\ verdicts' = NoVerdicts
    /\ calls' = <<>>
    /\ sleep' = NoSleep
    /\ UNCHANGED <<args, policy, order, call_count, now, error>>

\* The policy's strategies applied to a retry state outside the loop: any
\* outcome, the one of a state no attempt has completed in included; and
\* is_server_error(exc) called by itself on the outcome's exception.
Probe ==
    /\ pc = "ready"
    /\ \E o \in Outcomes \cup {NoOutcome}, n \in 1..MaxAttempts, t \in Clock,
          u \in 0..RandomSteps :
         LET rs == RetryState(o, n)
             r == retry_any(policy.retry, rs)
             w == policy_wait(policy.wait, rs, t, u)
         IN  /\ outcome' = o
             /\ attempt_number' = n
             /\ now' = t
             /\ verdicts' =
                  [r.verdicts EXCEPT
                     !["is_server_error"] =
                        Verdict(is_server_error(exception(o), DefaultStatusCodes))]
             /\ calls' = w.calls
             /\ sleep' = Slept(w)
             /\ policy' = evaluated(policy, rs)
    /\ pc' = "probed"
    /\ UNCHANGED <<args, order, call_count, error>>

Next == BuildRetry \/ BuildTenacity \/ Call \/ DoAttempt \/ Iter \/ Sleep \/ Probe

Spec == Init /\ [][Next]_vars

\* Every attempt of the wrapped function finishes, every iteration of the loop
\* is computed and every sleep ends.
SpecFair == Spec /\ WF_vars(DoAttempt) /\ WF_vars(Iter) /\ WF_vars(Sleep)

(********************** several calls sharing one policy ********************)

\* The calls of one decorated function that are in progress at the same time.
\* Each call has its own RetryCallState (attempt number, outcome); the policy
\* object built by the decorator is the same for all of them.
Loops == {1, 2}

SharedKwargs ==
    {RetryDefaults, [RetryDefaults EXCEPT !.server_error_codes = {429, 503}]}

SharedOutcomes ==
    {Success(200, NoHeaders),
     Failure("httpx.ConnectError"),
     Failure("httpx.ReadTimeout"),
     StatusFailure("httpx.HTTPStatusError", 404, NoHeaders),
     StatusFailure("httpx.HTTPStatusError", 503, NoHeaders),
     StatusFailure("httpx.HTTPStatusError", 429, Headers(Text(<<"5">>), Absent)),
     StatusFailure("httpx.HTTPStatusError", 429, Headers(strftime(T0 + 3), Absent))}

\* The decorator has been applied and every call has been started: pc and the
\* fields of the retry state are kept per call, args, policy and order are shared.
InitShared ==
    /\ \E kw \in SharedKwargs :
         /\ args = [builder |-> "retry", kw |-> kw]
         /\ policy = retry(kw).policy
    /\ order \in {"stop_then_wait", "wait_then_stop"}
    /\ pc = [l \in Loops |-> "attempt"]
    /\ attempt_number = [l \in Loops |-> 1]
    /\ call_count = [l \in Loops |-> 0]
    /\ outcome = [l \in Loops |-> NoOutcome]
    /\ verdicts = [l \in Loops |-> NoVerdicts]
    /\ calls = [l \in Loops |-> <<>>]
    /\ sleep = [l \in Loops |-> NoSleep]
    /\ now = [l \in Loops |-> [sec |-> T0, usec |-> 0]]
    /\ error = [l \in Loops |-> ""]

\* One attempt of the wrapped function in call l ends with an outcome.
SharedAttempt(l) ==
    /\ pc[l] = "attempt"
    /\ \E o \in SharedOutcomes : outcome' = [outcome EXCEPT ![l] = o]
    /\ call_count' = [call_count EXCEPT ![l] = @ + 1]
    /\ pc' = [pc EXCEPT ![l] = "check"]
    /\ UNCHANGED <<args, policy, order, attempt_number, verdicts, calls, sleep, now, error>>

\* One iteration of call l's loop, on the shared policy as it is now.
SharedIter(l) ==
    /\ pc[l] = "check"
    /\ \E t \in Clock, u \in 0..RandomSteps :
         LET i == iter(policy, order, RetryState(outcome[l], attempt_number[l]), t, u)
         IN  /\ verdicts' = [verdicts EXCEPT ![l] = i.verdicts]
             /\ now' = [now EXCEPT ![l] = t]
             /\ pc' = [pc EXCEPT ![l] = i.pc]
             /\ error' = [error EXCEPT ![l] = i.error]
             /\ policy' = i.policy
             /\ IF i.waited
                THEN /\ calls' = [calls EXCEPT ![l] = i.wait.calls]
                     /\ sleep' = [sleep EXCEPT ![l] = Slept(i.wait)]
                ELSE UNCHANGED <<calls, sleep>>
    /\ UNCHANGED <<args, order, attempt_number, call_count, outcome>>

\* The sleep of call l ends and its state is prepared for its next attempt.
SharedSleep(l) ==
    /\ pc[l] = "sleeping"
    /\ pc' = [pc EXCEPT ![l] = "attempt"]
    /\ attempt_number' = [attempt_number EXCEPT ![l] = @ + 1]
    /\ outcome' = [outcome EXCEPT ![l] = NoOutcome]
    /\ verdicts' = [verdicts EXCEPT ![l] = NoVerdicts]
    /\ calls' = [calls EXCEPT ![l] = <<>>]
    /\ sleep' = [sleep EXCEPT ![l] = NoSleep]
    /\ UNCHANGED <<args, policy, order, call_count, now, error>>

NextShared == \E l \in Loops : SharedAttempt(l) \/ SharedIter(l) \/ SharedSleep(l)

SpecShared == InitShared /\ [][NextShared]_vars

(******************************* properties ********************************)

\* The retry predicate, and with it the wait when it was computed, has been
\* evaluated on the outcome held in the state.
Evaluated == pc \in {"sleeping", "raised", "returned", "probed"}

HTTPStatusClasses == {"httpx.HTTPStatusError", "requests.HTTPError"}

\* The outcome is a failure whose exception is an HTTP-status error carrying a
\* response.
CarriesResponse(o) ==
    o.state = "failed" /\ o.kind \in HTTPStatusClasses /\ o.resp = "response"

\* The outcome is a failure whose exception is an instance of one of the classes.
IsFailureOf(o, classes) == o.state = "failed" /\ Bases(o.kind) \cap classes # {}

\* The status codes the retry predicate was configured with.
ConfiguredCodes ==
    IF args.builder = "retry" THEN args.kw.server_error_codes ELSE {500, 502, 503, 504}

\* The enable flag of a category, as given to retry().
Flag(s) ==
    CASE s = "retry_if_server_error" -> args.kw.retry_server_errors
      [] s = "retry_if_network_error" -> args.kw.retry_network_errors
      [] s = "retry_if_timeout" -> args.kw.retry_timeouts
      [] s = "retry_if_rate_limited" -> args.kw.retry_rate_limited

\* C1: is_server_error, and retry_if_server_error built on it, answers true
\* exactly for a failure whose HTTP-status exception carries a response with a
\* status in the configured set, and false for a success, a failure that is no
\* HTTP-status error and a status outside the set.
C1_ServerErrorExact ==
    (Evaluated /\ verdicts["retry_if_server_error"] # "skipped") =>
        LET v == verdicts["retry_if_server_error"]
            codes == ConfiguredCodes
        IN  /\ v = "True" <=> (CarriesResponse(outcome) /\ outcome.status \in codes)
            /\ (\/ outcome.state # "failed"
                \/ outcome.kind \notin HTTPStatusClasses
                \/ CarriesResponse(outcome) /\ outcome.status \notin codes)
               => v = "False"

\* A 503 under the default set was answered true.
C1_Witness ==
    /\ Evaluated
    /\ ConfiguredCodes = {500, 502, 503, 504}
    /\ outcome.status = 503
    /\ verdicts["retry_if_server_error"] = "True"

\* C2: is_rate_limited answers true exactly for a failure whose HTTP-status
\* exception carries a response with status 429: any other status is not
\* rate-limited even with a Retry-After header, a 429 is even without one.
C2_RateLimitedExact ==
    (Evaluated /\ verdicts["retry_if_rate_limited"] # "skipped") =>
        LET v == verdicts["retry_if_rate_limited"]
        IN  /\ v = "True" <=> (CarriesResponse(outcome) /\ outcome.status = 429)
            /\ (CarriesResponse(outcome) /\ outcome.status # 429) => v = "False"

\* A 429 without a Retry-After header was answered true.
C2_Witness ==
    /\ Evaluated
    /\ CarriesResponse(outcome)
    /\ outcome.status = 429
    /\ outcome.headers["Retry-After"] = Absent
    /\ verdicts["retry_if_rate_limited"] = "True"

Slots == {"wait_server_errors", "wait_network_errors", "wait_timeouts", "wait_rate_limited"}

\* The dispatcher was applied to the outcome held in the state.
Dispatched == Evaluated /\ sleep.computed /\ policy.wait.type = "wait_context_aware"

\* The category of an outcome for a dispatcher, in the priority order.
ExpectedSlot(o, w) ==
    IF CarriesResponse(o) /\ o.status \in w.server_error_codes THEN "wait_server_errors"
    ELSE IF IsFailureOf(o, w.network_errors) THEN "wait_network_errors"
    ELSE IF IsFailureOf(o, w.timeouts) THEN "wait_timeouts"
    ELSE IF CarriesResponse(o) /\ o.status = 429 THEN "wait_rate_limited"
    ELSE "none"

\* The categories whose strategy the last wait computation invoked, in order.
InvokedSlots == SelectSeq(calls, LAMBDA c : c \in Slots)

\* C3: for a failure the dispatcher invokes the wait strategy of the first
\* category that matches in the order server error, network error, timeout,
\* rate limited, and the strategy of no other category.
C3_FirstMatchWins ==
    (Dispatched /\ outcome.state = "failed") =>
        LET slot == ExpectedSlot(outcome, policy.wait)
        IN  InvokedSlots = IF slot = "none" THEN <<>> ELSE <<slot>>

\* A 429 that is also in server_error_codes was waited as a server error.
C3_Witness ==
    /\ Dispatched
    /\ CarriesResponse(outcome)
    /\ outcome.status = 429
    /\ 429 \in policy.wait.server_error_codes
    /\ InvokedSlots = <<"wait_server_errors">>

\* C4: the dispatcher returns a wait of zero, invoking no category's strategy,
\* for an absent outcome, a success and a failure that matches no category.
C4_ZeroWhenUnclassified ==
    (Dispatched /\ ExpectedSlot(outcome, policy.wait) = "none") =>
        /\ sleep.err = ""
        /\ sleep.value = 0
        /\ calls = <<>>

\* An unclassified failure that carries a response was given a wait of zero.
C4_Witness ==
    /\ Dispatched
    /\ CarriesResponse(outcome)
    /\ outcome.status = 404
    /\ sleep.err = "" /\ sleep.value = 0 /\ calls = <<>>

\* The predicate asked for a retry.
Retried == \E s \in StrategyNames : verdicts[s] = "True"

\* The category sets given to retry(), None resolved to the defaults.
GivenNetworkErrors ==
    IF args.builder # "retry" \/ args.kw.network_errors = NoneSet
    THEN get_default_network_errors ELSE args.kw.network_errors

GivenTimeouts ==
    IF args.builder # "retry" \/ args.kw.timeouts = NoneSet
    THEN get_default_timeouts ELSE args.kw.timeouts

\* A category's classifier accepts the outcome, under the sets given to retry().
Accepts(s, o) ==
    CASE s = "retry_if_server_error" ->
            CarriesResponse(o) /\ o.status \in ConfiguredCodes
      [] s = "retry_if_network_error" -> IsFailureOf(o, GivenNetworkErrors)
      [] s = "retry_if_timeout" -> IsFailureOf(o, GivenTimeouts)
      [] s = "retry_if_rate_limited" -> CarriesResponse(o) /\ o.status = 429

\* C5: the predicate built by retry() asks for a retry iff the classifier of at
\* least one enabled category accepts the outcome; the loop goes on to wait only
\* then, and a failure no enabled category accepts reaches the caller.
C5_PredicateIsOrOfEnabled ==
    (Evaluated /\ args.builder = "retry") =>
        LET accepted == \E s \in StrategyNames : Flag(s) /\ Accepts(s, outcome)
        IN  /\ Retried <=> accepted
            /\ pc = "sleeping" => accepted
            /\ (pc = "raised" /\ error = "RetryError") => accepted
            /\ pc = "returned" => ~accepted

\* A timeout was not retried by a policy with the timeout category disabled,
\* though the timeout classifier accepts it.
C5_Witness ==
    /\ Evaluated
    /\ args.builder = "retry"
    /\ ~Flag("retry_if_timeout")
    /\ Accepts("retry_if_timeout", outcome)
    /\ ~Accepts("retry_if_network_error", outcome)
    /\ ~Retried
    /\ pc = "raised" /\ error = outcome.kind

\* C6: retry() fails with RuntimeError iff all four enable flags are false, and
\* builds a policy for every other combination.
C6_ConfigErrorIffAllDisabled ==
    args.builder = "retry" =>
        LET none == \A s \in StrategyNames : ~Flag(s)
        IN  /\ pc = "config_error" <=> none
            /\ none => error = "RuntimeError" /\ policy = NoPolicy
            /\ ~none => policy # NoPolicy /\ policy.retry.retries # <<>>

\* The all-disabled configuration was refused.
C6_Witness ==
    /\ args.builder = "retry"
    /\ pc = "config_error"
    /\ error = "RuntimeError"
    /\ \A s \in StrategyNames : ~Flag(s)

\* A header-derived strategy handed to tenacity as the wait was applied to the
\* outcome held in the state.
HeaderWaited == Evaluated /\ sleep.computed /\ policy.wait.type = "wait_from_header"

\* The value of the strategy's header in the response of the outcome.
HeaderValue == outcome.headers[policy.wait.header]

DigitChars == <<"0", "1", "2", "3", "4", "5", "6", "7", "8", "9">>

\* The decimal numeral of n.
RECURSIVE Decimal(_)
Decimal(n) ==
    IF n < 10 THEN <<DigitChars[n + 1]>>
    ELSE Decimal(n \div 10) \o <<DigitChars[(n % 10) + 1]>>

\* The whole numbers of seconds the header values of the model spell.
DigitWaits == {0, 5, 6, 7, 120, 121}

\* The header value is the HTTP-date of the instant d seconds after the second
\* the clock was read in.
DateAhead(d) == HeaderValue = strftime(now.sec + d)

DateOffsets == {-1, 0, 3, 5, 6, 120, 121, SecondsPerDay + 5}

\* The wait the header asks for, in whole seconds, is n.
AsksFor(n) ==
    /\ CarriesResponse(outcome)
    /\ \/ HeaderValue = Text(Decimal(n))
       \/ now.usec = 0 /\ DateAhead(n)
       \/ now.usec > 0 /\ DateAhead(n + 1)

\* The cases in which no wait can be derived from the header.
NoResponseCase == outcome.state = "failed" /\ ~CarriesResponse(outcome)

AbsentHeaderCase == CarriesResponse(outcome) /\ HeaderValue = Absent

UnparseableCase ==
    /\ CarriesResponse(outcome)
    /\ HeaderValue.form = "text"
    /\ \/ HeaderValue.text = <<>>
       \/ \E i \in 1..Len(HeaderValue.text) : HeaderValue.text[i] \notin Digits

PastDateCase ==
    /\ CarriesResponse(outcome)
    /\ \E d \in DateOffsets : DateAhead(d) /\ (d < 0 \/ (d = 0 /\ now.usec > 0))

ExceedsMaxCase ==
    /\ policy.wait.wait_max # NoMax
    /\ \E n \in DigitWaits : n > policy.wait.wait_max /\ AsksFor(n)

\* The fallback's result for the retry state, and nothing else, was returned.
FellBack ==
    /\ sleep.err = ""
    /\ sleep.value = wait_exponential(RetryState(outcome, attempt_number))
    /\ calls = <<"wait_from_header", "wait_exponential">>

\* C7: with a fallback configured wait_from_header raises for no outcome, and
\* returns exactly the fallback's result when the failure carries no response,
\* the header is absent, unparseable or a past date, or the wait exceeds
\* wait_max.
C7_FallbackNeverRaises ==
    (HeaderWaited /\ policy.wait.fallback # "None") =>
        /\ sleep.err = ""
        /\ (\/ NoResponseCase
            \/ AbsentHeaderCase
            \/ UnparseableCase
            \/ PastDateCase
            \/ ExceedsMaxCase) => FellBack

\* C8: without a fallback each of those cases raises ValueError out of the wait
\* computation, and in the loop the call ends with it at that attempt.
C8_NoFallbackRaisesValueError ==
    (/\ HeaderWaited
     /\ policy.wait.fallback = "None"
     /\ \/ NoResponseCase
        \/ AbsentHeaderCase
        \/ UnparseableCase
        \/ PastDateCase
        \/ ExceedsMaxCase) =>
        /\ sleep.err = "ValueError"
        /\ pc # "probed" => (pc = "raised" /\ error = "ValueError")

\* C9: a derived wait equal to wait_max is returned; a derived wait one second
\* above it is not, and gives the fallback's result, or ValueError without a
\* fallback.
C9_WaitMaxInclusive ==
    (HeaderWaited /\ policy.wait.wait_max # NoMax) =>
        /\ AsksFor(policy.wait.wait_max) =>
              /\ sleep.err = ""
              /\ sleep.value = policy.wait.wait_max
              /\ calls = <<"wait_from_header">>
        /\ AsksFor(policy.wait.wait_max + 1) =>
              IF policy.wait.fallback = "None"
              THEN sleep.err = "ValueError"
              ELSE FellBack

\* A header asking for exactly wait_max seconds was obeyed.
C9_Witness ==
    /\ HeaderWaited
    /\ policy.wait.wait_max = 5
    /\ HeaderValue = Text(<<"5">>)
    /\ sleep.err = "" /\ sleep.value = 5
    /\ pc = "sleeping"

\* C10: an all-digit header value N gives a wait of exactly N seconds, unless N
\* exceeds wait_max.
C10_DigitsAreSeconds ==
    HeaderWaited =>
        \A n \in DigitWaits :
            (/\ CarriesResponse(outcome)
             /\ HeaderValue = Text(Decimal(n))
             /\ ~(policy.wait.wait_max # NoMax /\ n > policy.wait.wait_max)) =>
                /\ sleep.err = ""
                /\ sleep.value = n
                /\ calls = <<"wait_from_header">>

\* "120" gave a wait of 120 seconds.
C10_Witness ==
    /\ HeaderWaited
    /\ CarriesResponse(outcome)
    /\ HeaderValue = Text(<<"1", "2", "0">>)
    /\ sleep.err = "" /\ sleep.value = 120

\* The whole seconds from the clock reading to the instant d seconds after the
\* second it was read in.
WholeSecondsTo(d) == IF now.usec > 0 THEN d - 1 ELSE d

\* The instant d seconds after the second the clock was read in is not before
\* the clock reading.
NotPast(d) == d > 0 \/ (d = 0 /\ now.usec = 0)

\* C11: a header value that is an HTTP-date not in the past gives a wait of the
\* whole seconds from now to that date, also for a date one day or more ahead
\* (unless that wait exceeds wait_max).
C11_FutureDateWholeSeconds ==
    HeaderWaited =>
        \A d \in DateOffsets :
            (/\ CarriesResponse(outcome)
             /\ DateAhead(d)
             /\ NotPast(d)
             /\ ~(policy.wait.wait_max # NoMax
                  /\ WholeSecondsTo(d) > policy.wait.wait_max)) =>
                /\ sleep.err = ""
                /\ sleep.value = WholeSecondsTo(d)
                /\ calls = <<"wait_from_header">>

\* A date three seconds ahead of a clock half a second into its second gave a
\* wait of two seconds.
C11_Witness ==
    /\ HeaderWaited
    /\ CarriesResponse(outcome)
    /\ DateAhead(3)
    /\ now.usec > 0
    /\ sleep.err = "" /\ sleep.value = 2

\* C12: a header value that is a well-formed HTTP-date earlier than the clock
\* reading never gives a wait of its own: the fallback's result is returned
\* when a fallback is configured, ValueError is raised otherwise.
C12_PastDateIsInvalid ==
    (HeaderWaited /\ PastDateCase) =>
        IF policy.wait.fallback = "None"
        THEN sleep.err = "ValueError" /\ calls = <<"wait_from_header">>
        ELSE FellBack

\* The date of the second the clock was read in, half a second into it, was
\* refused without a fallback.
C12_Witness ==
    /\ HeaderWaited
    /\ CarriesResponse(outcome)
    /\ DateAhead(0)
    /\ now.usec > 0
    /\ policy.wait.fallback = "None"
    /\ sleep.err = "ValueError"

\* A call of a function wrapped by retry() has had the predicate evaluated on
\* the outcome of its latest attempt.
InLoop == args.builder = "retry" /\ pc \in {"sleeping", "raised", "returned"}

\* The classifier of an enabled category accepts the outcome of the latest
\* attempt.
AcceptedByEnabled == \E s \in StrategyNames : Flag(s) /\ Accepts(s, outcome)

\* C13: a function wrapped by retry(max_attempt_number=N) is invoked at most N
\* times in one call; an attempt that fails with a failure the predicate accepts
\* is followed by another while fewer than N were made, and ends the call at
\* exactly N, so a call whose attempts all fail retryably makes exactly N.
C13_AtMostNAttempts ==
    args.builder = "retry" =>
        LET N == args.kw.max_attempt_number
        IN  /\ call_count <= N
            /\ (InLoop /\ AcceptedByEnabled) =>
                  IF call_count < N THEN pc = "sleeping"
                  ELSE pc = "raised" /\ call_count = N

\* With N = 2 the call ended at the second retryable failure, a connect timeout.
C13_Witness ==
    /\ InLoop
    /\ args.kw.max_attempt_number = 2
    /\ outcome.kind = "httpx.ConnectTimeout"
    /\ pc = "raised"
    /\ call_count = 2

\* The stop condition ended the loop after a failure the predicate asked to
\* retry.
Exhausted ==
    /\ pc = "raised"
    /\ Retried
    /\ sleep.err = ""
    /\ stop_after_attempt(policy.stop, RetryState(outcome, attempt_number))

\* C14 as stated: when the attempts are exhausted the error that reaches the
\* caller is the failure of the last attempt itself, not wrapped in another.
C14_OriginalFailureUnwrapped == Exhausted => error = outcome.kind

\* C14 as the code has it: when the attempts are exhausted the caller gets the
\* failure of the last attempt itself only if reraise was asked for; otherwise
\* it gets RetryError, which holds the last attempt unchanged.
C14_UnwrappedOnlyWithReraise ==
    Exhausted =>
        /\ outcome.state = "failed"
        /\ error = IF policy.reraise THEN outcome.kind ELSE "RetryError"

\* A 429 on the last attempt of a default policy reached the caller as
\* RetryError.
C14_Witness ==
    /\ Exhausted
    /\ args.builder = "retry"
    /\ ~policy.reraise
    /\ CarriesResponse(outcome) /\ outcome.status = 429
    /\ call_count = policy.stop
    /\ error = "RetryError"

\* C15: without reraise a call of a function wrapped by retry() whose attempts
\* all fail retryably ends after exactly max_attempt_number attempts, raising
\* RetryError.
C15_DefaultEndsWithRetryError ==
    (InLoop /\ ~args.kw.reraise /\ AcceptedByEnabled) =>
        IF call_count < args.kw.max_attempt_number THEN pc = "sleeping"
        ELSE /\ pc = "raised"
             /\ error = "RetryError"
             /\ call_count = args.kw.max_attempt_number

\* The default policy gave up at its last attempt, a connect error, with
\* RetryError.
C15_Witness ==
    /\ InLoop
    /\ args.kw = RetryDefaults
    /\ outcome.kind = "httpx.ConnectError"
    /\ call_count = RetryDefaults.max_attempt_number
    /\ pc = "raised"
    /\ error = "RetryError"

\* C16: with reraise=True such a call ends after exactly max_attempt_number
\* attempts by raising the exception of the last attempt, not RetryError.
C16_ReraiseEndsWithLastException ==
    (InLoop /\ args.kw.reraise /\ AcceptedByEnabled) =>
        IF call_count < args.kw.max_attempt_number THEN pc = "sleeping"
        ELSE /\ pc = "raised"
             /\ error = outcome.kind
             /\ error # "RetryError"
             /\ call_count = args.kw.max_attempt_number

\* retry(reraise=True) gave up at its last attempt with httpx.ConnectError.
C16_Witness ==
    /\ InLoop
    /\ args.kw.reraise
    /\ outcome.kind = "httpx.ConnectError"
    /\ call_count = args.kw.max_attempt_number
    /\ call_count > 1
    /\ pc = "raised"
    /\ error = "httpx.ConnectError"

\* C17: a failure that no enabled category accepts is not retried: the call
\* ends at that attempt, no wait is computed, and that same exception reaches
\* the caller unwrapped, whatever attempts remain.
C17_UnacceptedFailurePropagates ==
    (InLoop /\ outcome.state = "failed" /\ ~AcceptedByEnabled) =>
        /\ pc = "raised"
        /\ error = outcome.kind
        /\ ~sleep.computed
        /\ call_count = attempt_number

\* httpx.CloseError on the first attempt of the default policy reached the
\* caller after that one attempt.
C17_Witness ==
    /\ InLoop
    /\ args.kw = RetryDefaults
    /\ outcome.kind = "httpx.CloseError"
    /\ call_count = 1
    /\ pc = "raised"
    /\ error = "httpx.CloseError"

\* C18: an attempt that succeeds ends the loop: its result is returned, no wait
\* is computed after it and no further attempt is made, whatever failures
\* preceded it.
C18_SuccessEndsLoop ==
    (pc \in {"sleeping", "raised", "returned"} /\ outcome.state = "success") =>
        /\ pc = "returned"
        /\ error = ""
        /\ ~Retried
        /\ ~sleep.computed
        /\ calls = <<>>
        /\ call_count = attempt_number

\* The default policy returned the 200 of its third attempt.
C18_Witness ==
    /\ args.builder = "retry"
    /\ args.kw = RetryDefaults
    /\ pc = "returned"
    /\ outcome = Success(200, NoHeaders)
    /\ call_count = 3

\* C19: the classifiers never raise, whatever the outcome, and answer false
\* when no exception or no response was captured.
C19_ClassifiersTotal ==
    Evaluated =>
        /\ \A s \in StrategyNames : verdicts[s] \in {"True", "False", "skipped"}
        /\ outcome.state # "failed" => \A s \in StrategyNames : verdicts[s] # "True"
        /\ (outcome.state = "failed" /\ outcome.resp # "response") =>
              /\ verdicts["retry_if_server_error"] # "True"
              /\ verdicts["retry_if_rate_limited"] # "True"

\* A success was answered false by all four classifiers.
C19_Witness ==
    /\ Evaluated
    /\ outcome.state = "success"
    /\ \A s \in StrategyNames : verdicts[s] = "False"

\* C20: retry_if_rate_limited, and with it a policy of retry() with the
\* rate-limited category enabled, asks for a retry for every failure whose
\* response carries a Retry-After header, whatever its status.
C20_RetryAfterHeaderRetried ==
    (/\ Evaluated
     /\ CarriesResponse(outcome)
     /\ outcome.headers["Retry-After"] # Absent) =>
        /\ verdicts["retry_if_rate_limited"] \in {"True", "skipped"}
        /\ (args.builder = "retry" /\ Flag("retry_if_rate_limited")) => Retried

\* The category of an outcome under the sets given to retry(), in the priority
\* order.
GivenSlot(o) ==
    IF CarriesResponse(o) /\ o.status \in args.kw.server_error_codes
    THEN "wait_server_errors"
    ELSE IF IsFailureOf(o, GivenNetworkErrors) THEN "wait_network_errors"
    ELSE IF IsFailureOf(o, GivenTimeouts) THEN "wait_timeouts"
    ELSE "other"

\* C21: the dispatcher built by retry() classifies with the sets given to
\* retry(): a failure with a status in server_error_codes is waited with
\* wait_server_errors, one of a kind in network_errors with wait_network_errors,
\* one of a kind in timeouts with wait_timeouts.
C21_DispatcherUsesGivenSets ==
    (Dispatched /\ args.builder = "retry" /\ GivenSlot(outcome) # "other") =>
        InvokedSlots = <<GivenSlot(outcome)>>

\* A 503 under retry(server_error_codes=(429, 503)) was waited with
\* wait_server_errors.
C21_Witness ==
    /\ Dispatched
    /\ args.builder = "retry"
    /\ args.kw.server_error_codes = {429, 503}
    /\ outcome.status = 503
    /\ pc = "sleeping"
    /\ InvokedSlots = <<"wait_server_errors">>

\* C22: a wait_from_header constructed with a header and wait_max but without a
\* fallback argument raises ValueError when the wait derived from the header
\* exceeds wait_max, and in the loop the call ends with that ValueError at that
\* attempt.
C22_OmittedFallbackRaises ==
    (/\ HeaderWaited
     /\ args.kw.fallback = Omitted
     /\ ExceedsMaxCase) =>
        /\ sleep.err = "ValueError"
        /\ pc # "probed" => (pc = "raised" /\ error = "ValueError")

\* Constructed without a fallback argument, the strategy waited the five seconds
\* a header within wait_max asks for.
C22_Witness ==
    /\ HeaderWaited
    /\ args.kw.fallback = Omitted
    /\ HeaderValue = Text(<<"5">>)
    /\ pc = "sleeping"
    /\ sleep.err = "" /\ sleep.value = 5

\* The Retry-After header of the response of the outcome.
RetryAfter == outcome.headers["Retry-After"]

\* Retry-After asks for a wait of n whole seconds, as a number or as a date.
RetryAfterAsksFor(n) ==
    \/ RetryAfter = Text(Decimal(n))
    \/ now.usec = 0 /\ RetryAfter = strftime(now.sec + n)
    \/ now.usec > 0 /\ RetryAfter = strftime(now.sec + n + 1)

\* Retry-After is not text made of digits only and not a date.
RetryAfterInvalid ==
    /\ RetryAfter.form = "text"
    /\ \/ RetryAfter.text = <<>>
       \/ \E i \in 1..Len(RetryAfter.text) : RetryAfter.text[i] \notin Digits

\* Retry-After is a date before the clock reading.
RetryAfterPast ==
    \E d \in DateOffsets :
        RetryAfter = strftime(now.sec + d) /\ (d < 0 \/ (d = 0 /\ now.usec > 0))

\* The whole numbers of seconds the Retry-After values of the model ask for.
AskedWaits == DigitWaits \cup {d : d \in DateOffsets} \cup {d - 1 : d \in DateOffsets}

\* C23: under the default configuration a 429 failure is waited with the
\* Retry-After strategy with a ceiling of 120 seconds and the unjittered
\* exponential fallback: N seconds for a Retry-After of N <= 120, the
\* exponential backoff of the attempt for an absent, invalid, past-dated or
\* greater-than-120 Retry-After.
C23_DefaultRateLimitedWait ==
    (/\ Dispatched
     /\ args.builder = "retry"
     /\ args.kw.server_error_codes = DefaultServerErrorCodes
     /\ CarriesResponse(outcome)
     /\ outcome.status = 429) =>
        /\ sleep.err = ""
        /\ InvokedSlots = <<"wait_rate_limited">>
        /\ \A n \in AskedWaits :
              (n >= 0 /\ n <= 120 /\ RetryAfterAsksFor(n)) => sleep.value = n
        /\ (\/ RetryAfter = Absent
            \/ RetryAfterInvalid
            \/ RetryAfterPast
            \/ \E n \in AskedWaits : n > 120 /\ RetryAfterAsksFor(n)) =>
              /\ sleep.value = Pow(2, attempt_number - 1)
              /\ calls = <<"wait_rate_limited", "wait_from_header", "wait_exponential">>

\* The default policy waited the 120 seconds a 429 asked for at its second
\* attempt.
C23_Witness ==
    /\ Dispatched
    /\ args.kw = RetryDefaults
    /\ outcome.status = 429
    /\ RetryAfter = Text(<<"1", "2", "0">>)
    /\ attempt_number = 2
    /\ pc = "sleeping"
    /\ sleep.value = 120

\* C25: a header-derived strategy configured with a wait_max never returns a
\* wait above wait_max, whatever the header value and the attempt number.
C25_NeverAboveWaitMax ==
    (HeaderWaited /\ policy.wait.wait_max # NoMax /\ sleep.err = "") =>
        sleep.value <= policy.wait.wait_max

\* A header asking for more than wait_max was answered with a wait within it.
C25_Witness ==
    /\ HeaderWaited
    /\ policy.wait.wait_max = 5
    /\ HeaderValue = Text(<<"6">>)
    /\ sleep.err = ""
    /\ sleep.value <= 5

\* C26: under the default sets no failure is accepted both as a network error
\* and as a timeout: what the timeout predicate accepts is no instance of the
\* network-error kinds, and what the network-error predicate accepts is no
\* instance of the timeout kinds.
C26_NetworkAndTimeoutDisjoint ==
    (Evaluated /\ GivenNetworkErrors = get_default_network_errors) =>
        /\ verdicts["retry_if_timeout"] = "True" =>
              ~IsFailureOf(outcome, get_default_network_errors)
        /\ verdicts["retry_if_network_error"] = "True" =>
              ~IsFailureOf(outcome, get_default_timeouts)

\* A read timeout was accepted as a timeout and is no network error.
C26_Witness ==
    /\ Evaluated
    /\ outcome.kind = "httpx.ReadTimeout"
    /\ verdicts["retry_if_network_error"] = "False"
    /\ verdicts["retry_if_timeout"] = "True"

\* The codes retry_if_server_error, retry() and wait_context_aware default to.
FourCodes == {500, 502, 503, 504}

\* C27 as stated: is_server_error called without a code set answers true
\* exactly for the statuses 500, 502, 503 and 504.
C27_DefaultCodesAreFour ==
    (Evaluated /\ verdicts["is_server_error"] # "skipped" /\ CarriesResponse(outcome)) =>
        (verdicts["is_server_error"] = "True" <=> outcome.status \in FourCodes)

\* C27 as the code has it: is_server_error called without a code set answers
\* true for every status from 500 to 599 (501 included); the four codes are the
\* default of retry_if_server_error, which answers false for 501.
C27_DefaultCodesAreAll5xx ==
    (Evaluated /\ CarriesResponse(outcome)) =>
        /\ verdicts["is_server_error"] # "skipped" =>
              (verdicts["is_server_error"] = "True"
                 <=> (outcome.status >= 500 /\ outcome.status <= 599))
        /\ (verdicts["retry_if_server_error"] # "skipped"
            /\ ConfiguredCodes = FourCodes) =>
              (verdicts["retry_if_server_error"] = "True"
                 <=> outcome.status \in FourCodes)

\* A 501 was a server error for is_server_error and none for the strategy.
C27_Witness ==
    /\ Evaluated
    /\ CarriesResponse(outcome)
    /\ outcome.status = 501
    /\ verdicts["is_server_error"] = "True"
    /\ verdicts["retry_if_server_error"] = "False"

\* C28: with stop passed to retry() as a keyword argument the decorated
\* function is created and its loop stops by the caller's condition in place of
\* stop_after_attempt(max_attempt_number).
C28_StopOverrides ==
    (args.builder = "retry" /\ args.kw.stop # 0) =>
        /\ pc \notin {"config_error", "decorate_error"}
        /\ error # "TypeError"
        /\ policy.stop = args.kw.stop

\* The dispatcher evaluated on the outcome at the first attempt, at the start of
\* the second the clock was read in and with the lowest random draw.
ReferenceWait ==
    wait_context_aware(policy.wait, RetryState(outcome, 1), [sec |-> now.sec, usec |-> 0], 0)

\* C29 as stated: the dispatcher's result depends on the outcome and the policy
\* only, so every evaluation gives what the reference evaluation gives,
\* whatever the attempt number.
C29_FunctionOfOutcomeAndPolicy ==
    Dispatched =>
        /\ sleep.err = ReferenceWait.err
        /\ sleep.value = ReferenceWait.value

\* C29 as the code has it: the result depends on the attempt number as well
\* (and on the random draw of a jittered strategy), and on nothing earlier
\* evaluations left behind: under the default strategies a network error is
\* waited exactly 2^(attempt - 1) seconds and a timeout between 0 and
\* 2^(attempt - 1) seconds, at every attempt of every call.
C29_FunctionOfOutcomePolicyAttempt ==
    (Dispatched /\ outcome.state = "failed") =>
        LET slot == ExpectedSlot(outcome, policy.wait)
            backoff == Pow(2, attempt_number - 1)
        IN  /\ slot = "wait_network_errors" =>
                  /\ sleep.err = ""
                  /\ sleep.value = backoff
                  /\ calls = <<"wait_network_errors", "wait_exponential">>
            /\ slot = "wait_timeouts" =>
                  /\ sleep.err = ""
                  /\ sleep.value >= 0 /\ sleep.value <= backoff
                  /\ calls = <<"wait_timeouts", "wait_random_exponential">>

\* The connect error of a second attempt was waited two seconds, where the first
\* attempt's would have been waited one.
C29_Witness ==
    /\ Dispatched
    /\ pc = "sleeping"
    /\ outcome = Failure("httpx.ConnectError")
    /\ attempt_number = 2
    /\ call_count = 2
    /\ sleep.value = 2
    /\ ReferenceWait.value = 1

\* C30: in a loop with a header-derived wait, the wait before the next attempt
\* is what the response of the attempt just made asks for, whatever the earlier
\* attempts were answered: N seconds for a header of that response asking for N
\* (within wait_max and less than a day), the fallback's value for the attempt
\* when that response carries no such header.
C30_WaitFromLatestResponse ==
    (HeaderWaited /\ pc = "sleeping") =>
        /\ call_count = attempt_number
        /\ \A n \in AskedWaits :
              (/\ n >= 0 /\ n < SecondsPerDay
               /\ AsksFor(n)
               /\ ~(policy.wait.wait_max # NoMax /\ n > policy.wait.wait_max)) =>
                  sleep.value = n
        /\ (AbsentHeaderCase /\ policy.wait.fallback # "None") => FellBack

\* After a second 429 whose Retry-After is the date three seconds ahead the loop
\* waits three seconds.
C30_Witness ==
    /\ HeaderWaited
    /\ pc = "sleeping"
    /\ call_count = 2
    /\ outcome.status = 429
    /\ DateAhead(3)
    /\ now.usec = 0
    /\ sleep.value = 3

\* What call l has decided: an iteration of its loop has ended.
Decided(l) == pc[l] \in {"sleeping", "raised", "returned"}

\* The policy as the decorator built it.
BuiltPolicy == retry(args.kw).policy

CallStarted == args.builder = "retry" /\ pc \in {"attempt", "check", "sleeping"}

\* The four ways a call is to end.
ReturnedSuccess == pc = "returned" /\ outcome.state = "success" /\ error = ""

PropagatedFailure ==
    /\ pc = "raised"
    /\ outcome.state = "failed"
    /\ \A s \in StrategyNames : verdicts[s] \in {"False", "skipped"}
    /\ error = outcome.kind

ExhaustedAtMax ==
    args.builder = "retry" /\ Exhausted /\ call_count = args.kw.max_attempt_number

PropagatedWaitError == pc = "raised" /\ Retried /\ sleep.computed /\ sleep.err # "" /\ error = sleep.err

Endings == <<ReturnedSuccess, PropagatedFailure, ExhaustedAtMax, PropagatedWaitError>>

EndedInOneOfFour ==
    /\ args.builder = "retry"
    /\ \E i \in 1..4 : Endings[i] /\ \A j \in 1..4 : Endings[j] => j = i

\* The call is over, in whatever way.
CallOver == args.builder = "retry" /\ pc \in {"returned", "raised"}

\* C31: every call of a function wrapped by retry() with the default stop
\* condition, its attempts and sleeps finishing, eventually ends in exactly one
\* of: a returned success, a propagated failure the predicate refused, the
\* exhaustion of max_attempt_number attempts, a propagated error of the wait
\* computation.
C31_CallEndsInOneOfFour == CallStarted ~> EndedInOneOfFour

\* The default policy's call ended by exhaustion at its third 503.
C31_Witness ==
    /\ ExhaustedAtMax
    /\ args.kw = RetryDefaults
    /\ outcome.status = 503
    /\ call_count = 3

\* Some strategy, the stop aside, raised err in the latest evaluation.
EvaluationRaised(err) ==
    \/ \E s \in StrategyNames : verdicts[s] = err
    \/ sleep.computed /\ sleep.err = err

\* C32: the configuration error of an all-disabled policy is raised by retry()
\* itself: the function was not decorated, no attempt of it was made and
\* nothing was evaluated. Once retry() has built a policy, no evaluation of the
\* predicate or of the dispatcher on the outcome of an attempt raises it.
C32_ConfigErrorAtBuildOnly ==
    args.builder = "retry" =>
        /\ (\A s \in StrategyNames : ~Flag(s)) =>
              /\ pc = "config_error"
              /\ error = "RuntimeError"
              /\ policy = NoPolicy
              /\ call_count = 0 /\ attempt_number = 0
              /\ outcome = NoOutcome /\ verdicts = NoVerdicts /\ ~sleep.computed
        /\ (pc # "config_error" /\ outcome.state # "none") =>
              /\ error # "RuntimeError"
              /\ ~EvaluationRaised("RuntimeError")

\* A policy with only the timeout category enabled evaluated the read timeout of
\* its second attempt and raised no configuration error.
C32_Witness ==
    /\ args.builder = "retry"
    /\ ~Flag("retry_if_server_error") /\ ~Flag("retry_if_network_error")
    /\ ~Flag("retry_if_rate_limited") /\ Flag("retry_if_timeout")
    /\ pc = "sleeping"
    /\ call_count = 2
    /\ outcome.kind = "httpx.ReadTimeout"
    /\ verdicts["retry_if_timeout"] = "True"

\* The retry strategy of the category a slot of the dispatcher waits for.
CategoryOf(slot) ==
    CASE slot = "wait_server_errors" -> "retry_if_server_error"
      [] slot = "wait_network_errors" -> "retry_if_network_error"
      [] slot = "wait_timeouts" -> "retry_if_timeout"
      [] slot = "wait_rate_limited" -> "retry_if_rate_limited"

\* C33: for every combination of enable flags and every outcome the predicate
\* built by retry() retries, each slot the dispatcher invokes is the slot of a
\* category whose flag is true.
C33_NoStrategyOfDisabledCategory ==
    (args.builder = "retry" /\ Dispatched /\ Retried) =>
        \A i \in DOMAIN InvokedSlots : Flag(CategoryOf(InvokedSlots[i]))

\* With the server-error category alone disabled, a connect error was waited by
\* the network-error slot.
C33_Witness ==
    /\ args.builder = "retry"
    /\ Dispatched /\ Retried
    /\ ~Flag("retry_if_server_error")
    /\ Flag("retry_if_network_error") /\ Flag("retry_if_timeout")
    /\ Flag("retry_if_rate_limited")
    /\ outcome.kind = "httpx.ConnectError"
    /\ InvokedSlots = <<"wait_network_errors">>

\* The invalid header values of the inputs: a decimal, a signed number, the
\* empty string, free text.
InvalidTexts == {<<"1", ".", "5">>, <<"-", "5">>, <<>>, <<"s", "o", "o", "n">>}

\* C34: a header value that is neither all digits nor a date in
\* HTTP_DATE_FORMAT is never used as a wait: wait_from_header returns the
\* fallback's result for it, or raises ValueError when it has no fallback.
C34_InvalidHeaderValue ==
    (HeaderWaited /\ UnparseableCase) =>
        /\ HeaderValue.text \in InvalidTexts
        /\ IF policy.wait.fallback = "None"
           THEN /\ sleep.err = "ValueError"
                /\ calls = <<"wait_from_header">>
                /\ pc # "probed" => (pc = "raised" /\ error = "ValueError")
           ELSE FellBack

\* A 429 whose Retry-After is "1.5" was waited with the fallback's one second
\* at the first attempt of a loop.
C34_Witness ==
    /\ HeaderWaited
    /\ policy.wait.header = "Retry-After"
    /\ policy.wait.fallback = "wait_exponential"
    /\ HeaderValue = Text(<<"1", ".", "5">>)
    /\ outcome.status = 429
    /\ pc = "sleeping"
    /\ attempt_number = 1
    /\ FellBack
    /\ sleep.value = 1

\* The dispatcher retry() builds from its default strategies, and the one
\* wait_context_aware() is without arguments.
RetryDispatcher == retry_wait(RetryDefaults)

PlainDispatcher == WaitContextAware(WaitContextAwareDefaults)

\* One of them waited for a server error.
DefaultServerErrorWait ==
    /\ Dispatched
    /\ policy.wait \in {RetryDispatcher, PlainDispatcher}
    /\ ExpectedSlot(outcome, policy.wait) = "wait_server_errors"

\* The jittered backoff of the attempt, called through the given strategies.
JitteredBackoff(through) ==
    /\ sleep.err = ""
    /\ sleep.value >= 0
    /\ sleep.value <= Pow(2, attempt_number - 1)
    /\ calls = through \o <<"wait_random_exponential">>

\* C35 as stated: under the default configuration a server error is waited
\* with the jittered exponential backoff whatever the response's headers say,
\* by the dispatcher of retry() and by wait_context_aware() alike.
C35_ServerErrorWaitIgnoresHeaders ==
    DefaultServerErrorWait => JitteredBackoff(<<"wait_server_errors">>)

\* C35 as the code has it: the dispatcher of retry() waits a server error with
\* the jittered backoff whatever the headers say; wait_context_aware() without
\* arguments waits the N seconds a Retry-After of digits asks for, up to 120,
\* and the jittered backoff when the response has no Retry-After header.
C35_ServerErrorWaitPerBuilder ==
    DefaultServerErrorWait =>
        IF args.builder = "retry"
        THEN JitteredBackoff(<<"wait_server_errors">>)
        ELSE /\ \A n \in DigitWaits :
                  (RetryAfter = Text(Decimal(n)) /\ n <= 120) =>
                      /\ sleep.err = ""
                      /\ sleep.value = n
                      /\ calls = <<"wait_server_errors", "wait_from_header">>
             /\ RetryAfter = Absent =>
                  JitteredBackoff(<<"wait_server_errors", "wait_from_header">>)

\* wait_context_aware() waited the five seconds the Retry-After of a 503 asked
\* for at a first attempt, where the backoff is at most one second.
C35_Witness ==
    /\ DefaultServerErrorWait
    /\ args.builder = "tenacity"
    /\ outcome.status = 503
    /\ RetryAfter = Text(<<"5">>)
    /\ attempt_number = 1
    /\ sleep.value = 5

\* The dispatcher of retry() waited a 503 with the same header by the backoff.
C35_RetryWitness ==
    /\ DefaultServerErrorWait
    /\ args.builder = "retry"
    /\ outcome.status = 503
    /\ RetryAfter = Text(<<"5">>)
    /\ pc = "sleeping"
    /\ sleep.value <= 1

\* The latest wait was returned by a wait_from_header from the header: it was
\* the last strategy called and it did not raise.
FromHeader ==
    /\ sleep.computed
    /\ sleep.err = ""
    /\ calls # <<>>
    /\ calls[Len(calls)] = "wait_from_header"

\* C36: a wait that wait_from_header returns from the header, not from its
\* fallback, is never negative, whatever the outcome, the header value and the
\* clock reading.
C36_HeaderWaitNonNegative == FromHeader => sleep.value >= 0

\* A Retry-After spelling the very second the clock was read at gave a wait of
\* zero seconds.
C36_Witness ==
    /\ HeaderWaited
    /\ FromHeader
    /\ CarriesResponse(outcome)
    /\ HeaderValue = strftime(now.sec)
    /\ now.usec = 0
    /\ sleep.value = 0

\* retry() was given no category set of its own.
DefaultSets ==
    /\ args.builder = "retry"
    /\ args.kw.server_error_codes = RetryDefaults.server_error_codes
    /\ args.kw.network_errors = NoneSet
    /\ args.kw.timeouts = NoneSet

\* C37: with the category sets of retry() at their defaults, every outcome the
\* predicate retries is matched by one of the dispatcher's four checks: one
\* slot is invoked, the slot of a category whose classifier accepts the
\* outcome, and the zero wait of the unclassified branch is never the result.
C37_PredicateAndDispatcherAgree ==
    (DefaultSets /\ Dispatched /\ Retried) =>
        /\ ExpectedSlot(outcome, policy.wait) # "none"
        /\ Len(InvokedSlots) = 1
        /\ Accepts(CategoryOf(InvokedSlots[1]), outcome)
        /\ calls # <<>>

\* The default policy retried a read timeout at its second attempt and the
\* timeout slot computed the wait.
C37_Witness ==
    /\ DefaultSets
    /\ args.kw = RetryDefaults
    /\ Dispatched /\ Retried
    /\ pc = "sleeping"
    /\ attempt_number = 2
    /\ outcome.kind = "httpx.ReadTimeout"
    /\ InvokedSlots = <<"wait_timeouts">>

\* The attempt returned a 429 or 5xx response without raising.
ReturnedErrorStatus ==
    outcome.state = "success" /\ outcome.status \in {429} \cup 500..599

\* C38: an attempt that returns a 429 or 5xx response without raising is a
\* success for the policy: no classifier accepts it, and in a loop the call
\* returns that response at that attempt, the first one when it is the first,
\* with no wait computed.
C38_ReturnedResponseNotRetried ==
    (Evaluated /\ ReturnedErrorStatus) =>
        /\ \A s \in VerdictNames : verdicts[s] \in {"False", "skipped"}
        /\ pc # "probed" =>
              /\ pc = "returned"
              /\ error = ""
              /\ ~sleep.computed
              /\ call_count = attempt_number

\* The default policy returned the 503 response of its first attempt.
C38_Witness ==
    /\ args.builder = "retry"
    /\ args.kw = RetryDefaults
    /\ ReturnedErrorStatus
    /\ outcome.status = 503
    /\ pc = "returned"
    /\ call_count = 1

\* A policy of retry_if_rate_limited returned the 429 response of its first
\* attempt.
C38_RateLimitedWitness ==
    /\ args.builder = "tenacity"
    /\ ReturnedErrorStatus
    /\ outcome.status = 429
    /\ pc = "returned"
    /\ call_count = 1

\* C39: for an attempt that returned, wait_from_header returns a wait of zero:
\* the header of the returned response is not read, the fallback is not called,
\* and nothing is raised, with or without a fallback.
C39_SuccessWaitsZero ==
    (HeaderWaited /\ outcome.state = "success") =>
        /\ sleep.err = ""
        /\ sleep.value = 0
        /\ calls = <<"wait_from_header">>

\* Without a fallback, the returned 429 whose Retry-After says "5" was given a
\* wait of zero.
C39_Witness ==
    /\ HeaderWaited
    /\ policy.wait.header = "Retry-After"
    /\ policy.wait.fallback = "None"
    /\ outcome.state = "success"
    /\ outcome.status = 429
    /\ HeaderValue = Text(<<"5">>)
    /\ sleep.err = ""
    /\ sleep.value = 0

====
